---- MODULE Spec2Model ----
(***************************************************************************)
(* Model of gcp-rider's terminal UI (package tui): the Bubble Tea model    *)
(* Model, its Init command batch, its Update function and the phases its   *)
(* View distinguishes, driven by the single event loop started in main.    *)
(* Indices: Go slices are 0-based, TLA+ sequences 1-based, so the Go       *)
(* expression m.vms[m.cursor] is m.vms[m.cursor + 1] here.                 *)
(***************************************************************************)
EXTENDS Integers, Sequences, FiniteSets, TLC

\* ---------------------------------------------------------------- bounds
MaxVms == 3          \* longest inventory the client returns
MaxLaunches == 2     \* launches recorded before "enter" is no longer offered
MaxScopes == 2       \* results the aggregated-list iterator yields before Done
MaxPerScope == 2     \* instances in one scope of the aggregated list

\* spinner.Dot has eight frames
SpinnerFrames == 8

\* ---------------------------------------------------------------- values
\* gcp.Instance values the client can return
Instances ==
  { [Name |-> "vm-1", Zone |-> "us-central1-a"],
    [Name |-> "vm-2", Zone |-> "europe-west1-b"] }

SeqsUpTo(S, n) == UNION { [1..k -> S] : k \in 0..n }

Inventories == SeqsUpTo(Instances, MaxVms)

\* GCP_PROJECT_ID values
ProjectIDs == { "test-project", "prod" }

\* error values: a Go error has an identity and a text; two distinct errors
\* may carry the same text
NoError == [type |-> "nil"]

Causes ==
  { [type |-> "errorString", id |-> 1, text |-> "fetch failed"],
    [type |-> "errorString", id |-> 2, text |-> "fetch failed"],
    [type |-> "errorString", id |-> 3, text |-> "internal server error"] }

\* errMsg{err}
errMsg(e) == [type |-> "errMsg", err |-> e]

\* func (e errMsg) Error() string { return e.err.Error() }
RECURSIVE Error(_)
Error(e) == IF e.type = "errMsg" THEN Error(e.err) ELSE e.text

\* the error has an Unwrap method: the error of fmt.Errorf with %w has one,
\* errMsg declares Error() only
HasUnwrap(e) == e.type = "wrapError"

\* errors.Is(err, target): err or an error reached from it by Unwrap is target
RECURSIVE ErrorsIs(_, _)
ErrorsIs(e, target) ==
  IF e = target THEN TRUE
  ELSE IF HasUnwrap(e) THEN ErrorsIs(e.err, target)
  ELSE FALSE

\* vmsMsg(vms)
vmsMsg(v) == [type |-> "vmsMsg", vms |-> v]

\* tea.KeyMsg, by its String()
KeyMsg(k) == [type |-> "KeyMsg", key |-> k]

\* spinner.TickMsg
TickMsg == [type |-> "TickMsg"]

\* msg.String() values the input device delivers; "x" stands for any key the
\* switch does not name
Keys == { "ctrl+c", "q", "up", "k", "down", "j", "enter", "x" }

\* commands Update returns
NoCmd == [type |-> "nil"]
QuitCmd == [type |-> "Quit"]
TickCmd == [type |-> "Tick"]
\* m.fetchVmsCmd, as Model.Init hands it to the runtime
FetchCmd == [type |-> "fetchVmsCmd"]

\* tea.ExecProcess(exec.Command(args...), nil)
ExecProcess(args) == [type |-> "ExecProcess", args |-> args]

\* ---------------------------------------------------------------- state
VARIABLES
  m,          \* the Model the runtime holds
  fetch,      \* the fetchVmsCmd command: "running", "posted", "consumed"
  fetchMsg,   \* the message fetchVmsCmd posted
  exec,       \* the external process that owns the terminal, or NoCmd
  launched,   \* the ExecProcess commands handed to the runtime, in order
  terminated, \* the program has quit
  last,       \* history: the event the loop processed last (msg), the kind
              \* of the event before it (prev), the Model and the number of
              \* launches before it (m, n), the command Update returned (cmd)
  navLoading, \* history: a down key was processed while the fetch was outstanding
  fIn,        \* FetchInstances: what the iterator was set up to yield
  fIt,        \* FetchInstances: what the iterator has yet to yield
  fVms,       \* FetchInstances: the local vms
  fRet        \* FetchInstances: the returned (vms, err), or NoResult

tvars == << m, fetch, fetchMsg, exec, launched, terminated, last, navLoading >>

fvars == << fIn, fIt, fVms, fRet >>

vars == << tvars, fvars >>

\* func NewModel(client gcpClient, projectID string) Model
NewModel(projectID) ==
  [ projectID |-> projectID,
    vms |-> << >>,
    cursor |-> 0,
    loading |-> TRUE,
    spinner |-> 0,
    err |-> NoError ]

\* the three views of Model.View, in the order View tests them
Phase(mm) ==
  IF mm.err # NoError THEN "Failed"
  ELSE IF mm.loading THEN "Loading"
  ELSE "Ready"

\* ---------------------------------------------------------------- Update
\* variant of KeyUp: moving up at index 0 wraps to the last index
KeyUp_Wrap(mm) ==
  [ m |-> IF mm.cursor > 0 THEN [mm EXCEPT !.cursor = mm.cursor - 1]
          ELSE [mm EXCEPT !.cursor = Len(mm.vms) - 1],
    cmd |-> NoCmd ]

\* case "up", "k"
KeyUp(mm) ==
  [ m |-> IF mm.cursor > 0 THEN [mm EXCEPT !.cursor = mm.cursor - 1] ELSE mm,
    cmd |-> NoCmd ]

\* variant of KeyDown: the bound is len(m.vms) instead of len(m.vms)-1
KeyDown_OffByOne(mm) ==
  [ m |-> IF mm.cursor < Len(mm.vms)
          THEN [mm EXCEPT !.cursor = mm.cursor + 1] ELSE mm,
    cmd |-> NoCmd ]

\* variant of KeyDown: the bound is tested with != instead of <
KeyDown_NotEqual(mm) ==
  [ m |-> IF mm.cursor # Len(mm.vms) - 1
          THEN [mm EXCEPT !.cursor = mm.cursor + 1] ELSE mm,
    cmd |-> NoCmd ]

\* case "down", "j"
KeyDown(mm) ==
  [ m |-> IF mm.cursor < Len(mm.vms) - 1
          THEN [mm EXCEPT !.cursor = mm.cursor + 1] ELSE mm,
    cmd |-> NoCmd ]

\* variant of KeyEnter: a single instance is treated like an empty list
KeyEnter_NeedsTwo(mm) ==
  IF Len(mm.vms) <= 1
  THEN [ m |-> mm, cmd |-> NoCmd ]
  ELSE LET vm == mm.vms[mm.cursor + 1]
       IN [ m |-> mm,
            cmd |-> ExecProcess(<< "gcloud", "compute", "ssh", vm.Name,
                                   "--zone", vm.Zone,
                                   "--project", mm.projectID >>) ]

\* variant of KeyEnter: the first instance is launched, not the selected one
KeyEnter_First(mm) ==
  IF Len(mm.vms) = 0
  THEN [ m |-> mm, cmd |-> NoCmd ]
  ELSE LET vm == mm.vms[1]
       IN [ m |-> mm,
            cmd |-> ExecProcess(<< "gcloud", "compute", "ssh", vm.Name,
                                   "--zone", vm.Zone,
                                   "--project", mm.projectID >>) ]

\* variant of KeyEnter: the cursor returns to the top after a launch
KeyEnter_ResetCursor(mm) ==
  IF Len(mm.vms) = 0
  THEN [ m |-> mm, cmd |-> NoCmd ]
  ELSE LET vm == mm.vms[mm.cursor + 1]
       IN [ m |-> [mm EXCEPT !.cursor = 0],
            cmd |-> ExecProcess(<< "gcloud", "compute", "ssh", vm.Name,
                                   "--zone", vm.Zone,
                                   "--project", mm.projectID >>) ]

\* variant of KeyEnter: with nothing to launch, "enter" dismisses the error
KeyEnter_ClearsErr(mm) ==
  IF Len(mm.vms) = 0
  THEN [ m |-> [mm EXCEPT !.err = NoError], cmd |-> NoCmd ]
  ELSE LET vm == mm.vms[mm.cursor + 1]
       IN [ m |-> mm,
            cmd |-> ExecProcess(<< "gcloud", "compute", "ssh", vm.Name,
                                   "--zone", vm.Zone,
                                   "--project", mm.projectID >>) ]

\* case "enter"
KeyEnter(mm) ==
  IF Len(mm.vms) = 0
  THEN [ m |-> mm, cmd |-> NoCmd ]
  ELSE LET vm == mm.vms[mm.cursor + 1]
       IN [ m |-> mm,
            cmd |-> ExecProcess(<< "gcloud", "compute", "ssh", vm.Name,
                                   "--zone", vm.Zone,
                                   "--project", mm.projectID >>) ]

\* variant of UpdateKey: the vim keys are swapped, "k" moves down, "j" up
UpdateKey_SwappedVim(mm, k) ==
  IF k \in { "ctrl+c", "q" } THEN [ m |-> mm, cmd |-> QuitCmd ]
  ELSE IF k \in { "up", "j" } THEN KeyUp(mm)
  ELSE IF k \in { "down", "k" } THEN KeyDown(mm)
  ELSE IF k = "enter" THEN KeyEnter(mm)
  ELSE [ m |-> mm, cmd |-> NoCmd ]

\* variant of UpdateKey: only "q" quits, "ctrl+c" falls through
UpdateKey_QuitOnlyQ(mm, k) ==
  IF k \in { "q" } THEN [ m |-> mm, cmd |-> QuitCmd ]
  ELSE IF k \in { "up", "k" } THEN KeyUp(mm)
  ELSE IF k \in { "down", "j" } THEN KeyDown(mm)
  ELSE IF k = "enter" THEN KeyEnter(mm)
  ELSE [ m |-> mm, cmd |-> NoCmd ]

\* variant of UpdateKey: an unnamed key reloads, back to the loading view
UpdateKey_Reload(mm, k) ==
  IF k \in { "ctrl+c", "q" } THEN [ m |-> mm, cmd |-> QuitCmd ]
  ELSE IF k \in { "up", "k" } THEN KeyUp(mm)
  ELSE IF k \in { "down", "j" } THEN KeyDown(mm)
  ELSE IF k = "enter" THEN KeyEnter(mm)
  ELSE [ m |-> [mm EXCEPT !.loading = TRUE], cmd |-> NoCmd ]

\* variant of UpdateKey: a key the switch does not name quits the program
UpdateKey_OtherQuits(mm, k) ==
  IF k \in { "up", "k" } THEN KeyUp(mm)
  ELSE IF k \in { "down", "j" } THEN KeyDown(mm)
  ELSE IF k = "enter" THEN KeyEnter(mm)
  ELSE [ m |-> mm, cmd |-> QuitCmd ]

\* case tea.KeyMsg
UpdateKey(mm, k) ==
  IF k \in { "ctrl+c", "q" } THEN [ m |-> mm, cmd |-> QuitCmd ]
  ELSE IF k \in { "up", "k" } THEN KeyUp(mm)
  ELSE IF k \in { "down", "j" } THEN KeyDown(mm)
  ELSE IF k = "enter" THEN KeyEnter(mm)
  ELSE [ m |-> mm, cmd |-> NoCmd ]

\* variant of UpdateVms: m.loading is left set
UpdateVms_KeepLoading(mm, msg) ==
  [ m |-> [mm EXCEPT !.vms = msg.vms], cmd |-> NoCmd ]

\* case vmsMsg
UpdateVms(mm, msg) ==
  [ m |-> [mm EXCEPT !.vms = msg.vms, !.loading = FALSE], cmd |-> NoCmd ]

\* variant of UpdateErr: m.loading is left set
UpdateErr_KeepLoading(mm, msg) ==
  [ m |-> [mm EXCEPT !.err = msg], cmd |-> NoCmd ]

\* variant of UpdateErr: the failure is retried by returning m.fetchVmsCmd
UpdateErr_Retry(mm, msg) ==
  [ m |-> [mm EXCEPT !.err = msg, !.loading = FALSE], cmd |-> FetchCmd ]

\* case errMsg
UpdateErr(mm, msg) ==
  [ m |-> [mm EXCEPT !.err = msg, !.loading = FALSE], cmd |-> NoCmd ]

\* variant of UpdateTick: the tick also ends the loading view
UpdateTick_StopsLoading(mm) ==
  [ m |-> [mm EXCEPT !.spinner = (mm.spinner + 1) % SpinnerFrames,
                     !.loading = FALSE],
    cmd |-> TickCmd ]

\* case spinner.TickMsg
UpdateTick(mm) ==
  [ m |-> [mm EXCEPT !.spinner = (mm.spinner + 1) % SpinnerFrames],
    cmd |-> TickCmd ]

\* func (m Model) Update(msg tea.Msg) (tea.Model, tea.Cmd)
Update(mm, msg) ==
  IF msg.type = "KeyMsg" THEN UpdateKey(mm, msg.key)
  ELSE IF msg.type = "vmsMsg" THEN UpdateVms(mm, msg)
  ELSE IF msg.type = "errMsg" THEN UpdateErr(mm, msg)
  ELSE IF msg.type = "TickMsg" THEN UpdateTick(mm)
  ELSE [ m |-> mm, cmd |-> NoCmd ]

\* ---------------------------------------------------------------- the loop
\* main: NewModel, tea.NewProgram(tuiModel).Run(); Run starts the commands of
\* Model.Init: the spinner tick and fetchVmsCmd
\* FetchInstances has not returned
NoResult == [type |-> "none"]

\* no call of FetchInstances is being followed
FetcherIdle ==
  /\ fIn = << >>
  /\ fIt = << >>
  /\ fVms = << >>
  /\ fRet = NoResult

Init ==
  /\ FetcherIdle
  /\ m \in { NewModel(p) : p \in ProjectIDs }
  /\ fetch = "running"
  /\ fetchMsg = NoCmd
  /\ exec = NoCmd
  /\ launched = << >>
  /\ terminated = FALSE
  /\ last = [ msg |-> [type |-> "start"], prev |-> "start",
               m |-> m, n |-> 0, cmd |-> NoCmd ]
  /\ navLoading = FALSE

\* the loop passes msg to Update, keeps the model and runs the command;
\* fetchAfter is the state of the fetch unless the command starts it
Process(msg, fetchAfter) ==
  LET r == Update(m, msg)
  IN /\ ~terminated
     /\ fetch' = IF r.cmd = FetchCmd THEN "running" ELSE fetchAfter
     /\ exec = NoCmd
     /\ r.cmd.type = "ExecProcess" => Len(launched) < MaxLaunches
     /\ m' = r.m
     /\ terminated' = (r.cmd.type = "Quit")
     /\ exec' = IF r.cmd.type = "ExecProcess" THEN r.cmd ELSE NoCmd
     /\ launched' = IF r.cmd.type = "ExecProcess"
                    THEN Append(launched, r.cmd) ELSE launched
     /\ last' = [ msg |-> msg, prev |-> last.msg.type,
                   m |-> m, n |-> Len(launched), cmd |-> r.cmd ]

\* func (m Model) fetchVmsCmd() tea.Msg, run concurrently with the loop; the
\* client answers with an inventory or with an error
FetchVmsCmd ==
  /\ fetch = "running"
  /\ \/ \E v \in Inventories : fetchMsg' = vmsMsg(v)
     \/ \E e \in Causes : fetchMsg' = errMsg(e)
  /\ fetch' = "posted"
  /\ UNCHANGED << m, exec, launched, terminated, last, navLoading >>
  /\ UNCHANGED fvars

\* the loop takes the fetch result from its queue
FetchResult ==
  /\ fetch = "posted"
  /\ Process(fetchMsg, "consumed")
  /\ UNCHANGED << fetchMsg, navLoading >>
  /\ UNCHANGED fvars

\* the loop takes a key press from the input device
KeyStep(k) ==
  /\ Process(KeyMsg(k), fetch)
  /\ navLoading' = (navLoading \/ (fetch # "consumed" /\ k \in { "down", "j" }))
  /\ UNCHANGED fetchMsg
  /\ UNCHANGED fvars

KeyPress == \E k \in Keys : KeyStep(k)

\* the loop takes a spinner tick; Update's command schedules the next one
Tick ==
  /\ Process(TickMsg, fetch)
  /\ UNCHANGED << fetchMsg, navLoading >>
  /\ UNCHANGED fvars

\* variant of ExecExit: ExecProcess is given a callback that reports the
\* failure of the external process as an errMsg
ExecExit_Callback ==
  /\ ~terminated
  /\ exec # NoCmd
  /\ \E ok \in BOOLEAN :
       /\ last' = [ msg |-> [type |-> "execExit", ok |-> ok],
                    prev |-> last.msg.type,
                    m |-> m, n |-> Len(launched), cmd |-> NoCmd ]
       /\ m' = IF ok THEN m
               ELSE Update(m, errMsg([type |-> "errorString", id |-> 3,
                                      text |-> "internal server error"])).m
  /\ exec' = NoCmd
  /\ UNCHANGED << fetch, fetchMsg, launched, terminated, navLoading >>
  /\ UNCHANGED fvars

\* the external process ends, with success or not; ExecProcess was given a
\* nil callback, so no message follows
ExecExit ==
  /\ ~terminated
  /\ exec # NoCmd
  /\ \E ok \in BOOLEAN :
       last' = [ msg |-> [type |-> "execExit", ok |-> ok],
                 prev |-> last.msg.type,
                 m |-> m, n |-> Len(launched), cmd |-> NoCmd ]
  /\ exec' = NoCmd
  /\ UNCHANGED << m, fetch, fetchMsg, launched, terminated, navLoading >>
  /\ UNCHANGED fvars

Next == FetchVmsCmd \/ FetchResult \/ KeyPress \/ Tick \/ ExecExit

Spec == Init /\ [][Next]_vars

\* the goroutine running fetchVmsCmd gets to finish once the client answers,
\* and the loop gets to every message waiting in its queue
FairSpec ==
  /\ Init
  /\ [][Next]_vars
  /\ WF_vars(FetchVmsCmd)
  /\ WF_vars(FetchResult)

\* ---------------------------------------------------------------- package gcp
\* A zone identifier is a string; it is kept as its sequence of tokens, a
\* token being "/" or a maximal run of other characters, so that path.Base
\* has something to compute on.
RawZones ==
  { << "projects", "/", "p", "/", "zones", "/", "us-central1-a" >>,
    << "europe-west1-b" >>,
    << "zones", "/", "asia-east1-c", "/" >> }

\* computepb.Instance values of the inventory source
RawInstances ==
  { [Name |-> "vm-1", Zone |-> << "projects", "/", "p", "/", "zones", "/", "us-central1-a" >>],
    [Name |-> "vm-2", Zone |-> << "europe-west1-b" >>],
    [Name |-> "vm-3", Zone |-> << "zones", "/", "asia-east1-c", "/" >>] }

\* pair.Value: nil, or an InstancesScopedList with its Instances
ScopeValues ==
  { [isNil |-> TRUE, Instances |-> << >>] } \cup
  { [isNil |-> FALSE, Instances |-> s] : s \in SeqsUpTo(RawInstances, MaxPerScope) }

\* what one it.Next() returns before Done: a pair or an error
Yields ==
  { [kind |-> "pair", value |-> v] : v \in ScopeValues } \cup
  { [kind |-> "err", err |-> e] : e \in Causes }

\* the loop of path.Base that strips trailing slashes
RECURSIVE StripSlashes(_)
StripSlashes(p) ==
  IF Len(p) > 0 /\ p[Len(p)] = "/" THEN StripSlashes(SubSeq(p, 1, Len(p) - 1))
  ELSE p

\* variant of Base: the first element of the path is taken
Base_First(p) ==
  IF p = << >> THEN "."
  ELSE LET q == StripSlashes(p)
       IN IF q = << >> THEN "/" ELSE q[1]

\* path.Base(*instance.Zone)
Base(p) ==
  IF p = << >> THEN "."
  ELSE LET q == StripSlashes(p)
       IN IF q = << >> THEN "/" ELSE q[Len(q)]

\* fmt.Errorf("failed to iterate over instances: %w", err)
wrapError(e) ==
  [ type |-> "wrapError", format |-> "failed to iterate over instances: %w",
    err |-> e ]

\* variant of AppendInstances: a scope contributes its first instance only
AppendInstances_FirstOnly(acc, value) ==
  IF ~value.isNil /\ Len(value.Instances) > 0
  THEN Append(acc, [ Name |-> value.Instances[1].Name,
                     Zone |-> Base(value.Instances[1].Zone) ])
  ELSE acc

\* the body of the loop for one pair: append the scope's instances to vms
AppendInstances(acc, value) ==
  IF ~value.isNil /\ Len(value.Instances) > 0
  THEN acc \o [ i \in 1..Len(value.Instances) |->
                  [ Name |-> value.Instances[i].Name,
                    Zone |-> Base(value.Instances[i].Zone) ] ]
  ELSE acc

\* FetchInstances is called with an iterator that yields a script, then Done
InitFetch ==
  /\ m = NewModel("test-project")
  /\ fetch = "running"
  /\ fetchMsg = NoCmd
  /\ exec = NoCmd
  /\ launched = << >>
  /\ terminated = FALSE
  /\ last = [ msg |-> [type |-> "start"], prev |-> "start",
               m |-> m, n |-> 0, cmd |-> NoCmd ]
  /\ navLoading = FALSE
  /\ fIn \in SeqsUpTo(Yields, MaxScopes)
  /\ fIt = fIn
  /\ fVms = << >>
  /\ fRet = NoResult

\* it.Next() returns a pair
FetchPair ==
  /\ fRet = NoResult
  /\ fIt # << >>
  /\ Head(fIt).kind = "pair"
  /\ fVms' = AppendInstances(fVms, Head(fIt).value)
  /\ fIt' = Tail(fIt)
  /\ UNCHANGED << fIn, fRet >>
  /\ UNCHANGED tvars

\* variant of FetchFail: what was gathered so far is returned with the error
FetchFail_Partial ==
  /\ fRet = NoResult
  /\ fIt # << >>
  /\ Head(fIt).kind = "err"
  /\ fRet' = [ type |-> "ret", vms |-> fVms, err |-> wrapError(Head(fIt).err) ]
  /\ fIt' = Tail(fIt)
  /\ UNCHANGED << fIn, fVms >>
  /\ UNCHANGED tvars

\* it.Next() returns an error other than iterator.Done
FetchFail ==
  /\ fRet = NoResult
  /\ fIt # << >>
  /\ Head(fIt).kind = "err"
  /\ fRet' = [ type |-> "ret", vms |-> << >>, err |-> wrapError(Head(fIt).err) ]
  /\ fIt' = Tail(fIt)
  /\ UNCHANGED << fIn, fVms >>
  /\ UNCHANGED tvars

\* it.Next() returns iterator.Done
FetchDone ==
  /\ fRet = NoResult
  /\ fIt = << >>
  /\ fRet' = [ type |-> "ret", vms |-> fVms, err |-> NoError ]
  /\ UNCHANGED << fIn, fIt, fVms >>
  /\ UNCHANGED tvars

NextFetch == FetchPair \/ FetchFail \/ FetchDone

SpecFetch == InitFetch /\ [][NextFetch]_vars

\* ---------------------------------------------------------------- properties
UpKeys == { "up", "k" }
DownKeys == { "down", "j" }
QuitKeys == { "ctrl+c", "q" }

\* the last event was a key press with a key of ks
Pressed(ks) == last.msg.type = "KeyMsg" /\ last.msg.key \in ks

\* Ready with at least one instance
ReadyList(mm) == Phase(mm) = "Ready" /\ Len(mm.vms) > 0

\* C1: in every reachable state, if the phase is Ready and the inventory is
\* non-empty then 0 <= cursor < len(inventory); whenever "enter" would read
\* inventory[cursor] (the inventory is non-empty) the index is in range.
C1_CursorInRange ==
  /\ ReadyList(m) => (0 <= m.cursor /\ m.cursor < Len(m.vms))
  /\ Len(m.vms) # 0 => (m.cursor + 1) \in DOMAIN m.vms

\* a confirm was processed with the cursor on the last of three instances
C1_Witness ==
  /\ Pressed({ "enter" })
  /\ ReadyList(m)
  /\ Len(m.vms) = 3
  /\ m.cursor = 2
  /\ last.cmd.type = "ExecProcess"

\* C2: whatever non-quit keys were delivered while the fetch was outstanding,
\* processing the fetch's success message with inventory I yields phase
\* Ready, inventory I and cursor 0.
C2_FetchSucceeded ==
  last.msg.type = "vmsMsg" =>
    /\ Phase(m) = "Ready"
    /\ m.vms = last.msg.vms
    /\ m.cursor = 0

\* a list of two arrived after a down key had been pressed during Loading
C2_Witness ==
  /\ last.msg.type = "vmsMsg"
  /\ navLoading
  /\ Len(m.vms) = 2
  /\ Phase(last.m) = "Loading"

\* C3: processing the failure message for cause e from Loading yields phase
\* Failed: loading is false, the stored error is non-nil and its text is the
\* text of e, the inventory is empty and the cursor is 0.
C3_FetchFailed ==
  (last.msg.type = "errMsg" /\ Phase(last.m) = "Loading") =>
    /\ Phase(m) = "Failed"
    /\ ~m.loading
    /\ m.err # NoError
    /\ Error(m.err) = last.msg.err.text
    /\ m.vms = << >>
    /\ m.cursor = 0

\* the fetch failed with "internal server error" after keys during Loading
C3_Witness ==
  /\ last.msg.type = "errMsg"
  /\ Phase(last.m) = "Loading"
  /\ last.msg.err.text = "internal server error"
  /\ Error(m.err) = "internal server error"
  /\ navLoading

\* C4: clamping saturates: in Ready with a non-empty inventory an up key at
\* cursor 0 leaves the cursor at 0 and a down key at cursor len(inventory)-1
\* leaves it at len(inventory)-1, so any number of them in a row does too.
C4_Saturating ==
  /\ (Pressed(UpKeys) /\ ReadyList(last.m) /\ last.m.cursor = 0)
       => m.cursor = 0
  /\ (Pressed(DownKeys) /\ ReadyList(last.m)
        /\ last.m.cursor = Len(last.m.vms) - 1)
       => m.cursor = Len(m.vms) - 1

\* a down key was processed at the last index of a list of three
C4_WitnessDown ==
  /\ Pressed(DownKeys)
  /\ ReadyList(last.m)
  /\ Len(last.m.vms) = 3
  /\ last.m.cursor = 2
  /\ m.cursor = 2

\* C5: in Ready away from the boundary a down key ("down", "j") sets the
\* cursor to cursor+1 and an up key ("up", "k") to cursor-1; nothing else of
\* the model changes and no command is returned.
C5_MoveByOne ==
  /\ (Pressed(DownKeys) /\ ReadyList(last.m)
        /\ last.m.cursor < Len(last.m.vms) - 1)
       => /\ m = [last.m EXCEPT !.cursor = last.m.cursor + 1]
          /\ last.cmd = NoCmd
  /\ (Pressed(UpKeys) /\ ReadyList(last.m) /\ last.m.cursor > 0)
       => /\ m = [last.m EXCEPT !.cursor = last.m.cursor - 1]
          /\ last.cmd = NoCmd

\* "k" moved the cursor from 2 to 1 in a list of three
C5_Witness ==
  /\ last.msg = KeyMsg("k")
  /\ ReadyList(last.m)
  /\ Len(m.vms) = 3
  /\ last.m.cursor = 2
  /\ m.cursor = 1

\* Ready with an inventory of exactly n instances
ReadyWith(mm, n) == Phase(mm) = "Ready" /\ Len(mm.vms) = n

\* C6: after the fetch succeeds with an empty inventory the phase is Ready;
\* there "enter" emits no launch and up/down leave the state unchanged with
\* cursor 0. With one instance the cursor is fixed at 0 as well, but "enter"
\* does emit a launch.
C6_EmptyInventory ==
  /\ (last.msg.type = "vmsMsg" /\ last.msg.vms = << >>)
       => (ReadyWith(m, 0) /\ m.cursor = 0)
  /\ (ReadyWith(last.m, 0) /\ Pressed({ "enter" }))
       => (m = last.m /\ last.cmd = NoCmd /\ Len(launched) = last.n
           /\ exec = NoCmd)
  /\ (ReadyWith(last.m, 0) /\ Pressed(UpKeys \cup DownKeys))
       => (m = last.m /\ m.cursor = 0 /\ last.cmd = NoCmd)
  /\ (ReadyWith(last.m, 1) /\ Pressed(UpKeys \cup DownKeys))
       => (m = last.m /\ m.cursor = 0)
  /\ (ReadyWith(last.m, 1) /\ Pressed({ "enter" }))
       => (last.cmd.type = "ExecProcess" /\ Len(launched) = last.n + 1
           /\ m.cursor = 0)

\* "enter" was processed in Ready with the empty inventory; nothing launched
C6_Witness ==
  /\ Pressed({ "enter" })
  /\ ReadyWith(last.m, 0)
  /\ fetch = "consumed"
  /\ launched = << >>

\* C7: an "enter" processed in Ready with a non-empty inventory emits exactly
\* one launch, for the instance under the cursor at that moment: the gcloud
\* command carries that instance's name and zone and the run's project.
C7_LaunchTarget ==
  (Pressed({ "enter" }) /\ ReadyList(last.m)) =>
    LET vm == last.m.vms[last.m.cursor + 1]
    IN /\ last.cmd.type = "ExecProcess"
       /\ last.cmd.args[4] = vm.Name
       /\ last.cmd.args[6] = vm.Zone
       /\ last.cmd.args[8] = last.m.projectID
       /\ Len(launched) = last.n + 1
       /\ launched[Len(launched)] = last.cmd
       /\ exec = last.cmd

\* after [vm-1, vm-2] and one down key, "enter" launched vm-2 in its zone
C7_Witness ==
  /\ Pressed({ "enter" })
  /\ Phase(last.m) = "Ready"
  /\ last.m.vms = << [Name |-> "vm-1", Zone |-> "us-central1-a"],
                     [Name |-> "vm-2", Zone |-> "europe-west1-b"] >>
  /\ last.m.cursor = 1
  /\ exec.type = "ExecProcess"
  /\ exec.args[4] = "vm-2"
  /\ exec.args[6] = "europe-west1-b"

\* C8: "enter" never changes the model; an "enter" that directly follows the
\* end of the session a previous "enter" launched emits a second launch for
\* the same instance and leaves the model as it was.
C8_ConfirmKeepsState ==
  /\ Pressed({ "enter" }) => m = last.m
  /\ (Pressed({ "enter" }) /\ last.prev = "execExit") =>
       /\ Len(launched) = last.n + 1
       /\ last.n >= 1
       /\ launched[last.n + 1] = launched[last.n]

\* two launches in a row, with the cursor away from the top
C8_Witness ==
  /\ Pressed({ "enter" })
  /\ last.prev = "execExit"
  /\ Len(launched) = 2
  /\ launched[1] = launched[2]
  /\ m.cursor = 1
  /\ m = last.m

\* C9: a launch is emitted only by an "enter" processed in Ready with a
\* non-empty inventory; no step taken in Loading or in Failed emits one.
C9_LaunchOnlyWhenReady ==
  [][ /\ launched' # launched => (KeyStep("enter") /\ ReadyList(m))
      /\ exec' # NoCmd => (KeyStep("enter") /\ ReadyList(m))
      /\ Phase(m) \in { "Loading", "Failed" } =>
           (launched' = launched /\ exec' = NoCmd) ]_vars

\* "enter" was processed in Failed and emitted nothing
C9_Witness ==
  /\ Pressed({ "enter" })
  /\ Phase(last.m) = "Failed"
  /\ last.cmd = NoCmd
  /\ launched = << >>
  /\ exec = NoCmd

\* C10: once the phase is Failed, the only events are keys and ticks; a key
\* other than quit leaves the model unchanged and returns no command, a tick
\* leaves phase, inventory, cursor and error unchanged, the fetch is never
\* issued again, and a quit key terminates the program.
C10_FailedIsTerminal ==
  Phase(last.m) = "Failed" =>
    /\ last.msg.type \in { "KeyMsg", "TickMsg" }
    /\ fetch = "consumed"
    /\ last.cmd.type \in { "nil", "Quit", "Tick" }
    /\ Phase(m) = "Failed"
    /\ m.vms = last.m.vms /\ m.cursor = last.m.cursor /\ m.err = last.m.err
    /\ Pressed(Keys \ QuitKeys) =>
         (m = last.m /\ last.cmd = NoCmd /\ ~terminated
          /\ Len(launched) = last.n)
    /\ Pressed(QuitKeys) => (terminated /\ m = last.m)
    /\ terminated => Pressed(QuitKeys)

\* the program was quit from Failed
C10_WitnessQuit ==
  /\ Pressed(QuitKeys)
  /\ Phase(last.m) = "Failed"
  /\ last.prev = "KeyMsg"
  /\ terminated

\* C11: a quit key ("q" or "ctrl+c") terminates the program in every phase,
\* also in Loading with the fetch outstanding, and leaves the model as it
\* was; once terminated, no step changes the model, launches a session or
\* un-terminates, whatever the fetch posts later.
C11_QuitTerminates ==
  /\ [](Pressed(QuitKeys) => (terminated /\ m = last.m /\ exec = NoCmd
                                /\ Len(launched) = last.n))
  /\ [][terminated => (terminated' /\ m' = m /\ launched' = launched
                        /\ exec' = exec /\ last' = last)]_vars

\* quit during Loading; the fetch posted its inventory afterwards, unread
C11_Witness ==
  /\ terminated
  /\ last.msg = KeyMsg("ctrl+c")
  /\ Phase(m) = "Loading"
  /\ fetch = "posted"
  /\ fetchMsg.type = "vmsMsg"
  /\ Len(fetchMsg.vms) = 2

\* C12: the fetch is started once, by Init, and never again (no step puts it
\* back to running, no command Update returns is the fetch); it posts one
\* completion message, an inventory or an error, which is never replaced.
C12_FetchOnce ==
  /\ [](last.cmd.type \in { "nil", "Quit", "Tick", "ExecProcess" })
  /\ [](fetch = "running" <=> fetchMsg = NoCmd)
  /\ [][fetch' # fetch =>
          \/ (fetch = "running" /\ fetch' = "posted"
               /\ fetchMsg'.type \in { "vmsMsg", "errMsg" })
          \/ (fetch = "posted" /\ fetch' = "consumed"
               /\ last'.msg = fetchMsg)]_vars
  /\ [][fetchMsg # NoCmd => fetchMsg' = fetchMsg]_vars

\* the one failure message was consumed and keys were pressed afterwards
C12_Witness ==
  /\ fetch = "consumed"
  /\ fetchMsg.type = "errMsg"
  /\ m.err = fetchMsg
  /\ Pressed({ "enter" })
  /\ last.prev = "KeyMsg"

\* the script has an error among its yields
HasError(script) == \E i \in 1..Len(script) : script[i].kind = "err"

\* the first error of a script that has one
FirstError(script) ==
  script[CHOOSE i \in 1..Len(script) :
           /\ script[i].kind = "err"
           /\ \A j \in 1..(i - 1) : script[j].kind # "err"].err

\* C13: FetchInstances succeeds or fails as a whole: if the iterator yields
\* an error, also after scopes that had instances, the result is the error
\* wrapping that cause together with no instances; instances are never
\* returned alongside an error.
C13_AtomicFailure ==
  fRet # NoResult =>
    /\ HasError(fIn) =>
         (fRet.err = wrapError(FirstError(fIn)) /\ fRet.vms = << >>)
    /\ fRet.err # NoError => (fRet.vms = << >> /\ HasError(fIn))
    /\ fRet.err \notin Causes

\* the error came after a scope whose two instances had been gathered
C13_Witness ==
  /\ fRet # NoResult
  /\ Len(fIn) = 2
  /\ fIn[1].kind = "pair"
  /\ fIn[2].kind = "err"
  /\ Len(fVms) = 2
  /\ fRet.err = wrapError(fIn[2].err)
  /\ fRet.vms = << >>

\* the instances of the scopes of a script, in the order the source has them
RECURSIVE Flatten(_)
Flatten(script) ==
  IF script = << >> THEN << >>
  ELSE (IF Head(script).kind = "pair" /\ ~Head(script).value.isNil
        THEN Head(script).value.Instances ELSE << >>) \o Flatten(Tail(script))

\* C14: when the iterator yields no error, FetchInstances drains it to Done
\* and returns, without error, one record per instance of all scopes, in
\* iteration order and in each scope's order: none dropped, none repeated,
\* nothing for a nil value or a scope without instances.
C14_AllInstancesInOrder ==
  (fRet # NoResult /\ ~HasError(fIn)) =>
    /\ fRet.err = NoError
    /\ fIt = << >>
    /\ Len(fRet.vms) = Len(Flatten(fIn))
    /\ \A i \in 1..Len(fRet.vms) : fRet.vms[i].Name = Flatten(fIn)[i].Name

\* a nil scope, then a scope of two instances: both were returned, in order
C14_Witness ==
  /\ fRet # NoResult
  /\ Len(fIn) = 2
  /\ fIn[1].kind = "pair" /\ fIn[1].value.isNil
  /\ fIn[2].kind = "pair" /\ Len(fIn[2].value.Instances) = 2
  /\ fRet.err = NoError
  /\ Len(fRet.vms) = 2
  /\ fRet.vms[1].Name = "vm-2"
  /\ fRet.vms[2].Name = "vm-1"

\* the zone identifier ends in a path segment, not in a slash
EndsInSegment(zone) == zone # << >> /\ zone[Len(zone)] # "/"

\* C15: each returned record has the Name of its instance unchanged and, as
\* Zone, the last path segment of the instance's zone identifier: Z for a
\* path ending in /zones/Z and Z for the short zone Z.
C15_ZoneIsLastSegment ==
  (fRet # NoResult /\ fRet.err = NoError) =>
    /\ Len(fRet.vms) = Len(Flatten(fIn))
    /\ \A i \in 1..Len(fRet.vms) :
         LET raw == Flatten(fIn)[i]
         IN /\ fRet.vms[i].Name = raw.Name
            /\ EndsInSegment(raw.Zone) =>
                 fRet.vms[i].Zone = raw.Zone[Len(raw.Zone)]

\* a fully qualified zone and a short zone were both normalised
C15_Witness ==
  /\ fRet # NoResult
  /\ Flatten(fIn) =
       << [Name |-> "vm-1",
           Zone |-> << "projects", "/", "p", "/", "zones", "/", "us-central1-a" >>],
          [Name |-> "vm-2", Zone |-> << "europe-west1-b" >>] >>
  /\ fRet.vms = << [Name |-> "vm-1", Zone |-> "us-central1-a"],
                   [Name |-> "vm-2", Zone |-> "europe-west1-b"] >>

\* C16: while the launched process runs, the loop processes nothing: the
\* model, the launches and the program's life are as they were until the
\* process exits; when it exits, with success or not, the loop resumes in
\* the state of the confirmation: Ready, same model, no error.
C16_LaunchBlocksLoop ==
  /\ [](last.msg.type = "execExit" =>
          /\ last.prev = "KeyMsg"
          /\ m = last.m
          /\ Phase(m) = "Ready"
          /\ m.err = NoError
          /\ exec = NoCmd
          /\ Len(launched) = last.n
          /\ ~terminated)
  /\ [][exec # NoCmd =>
          /\ m' = m
          /\ launched' = launched
          /\ terminated' = terminated
          /\ \/ (exec' = exec /\ last' = last)
             \/ (exec' = NoCmd /\ last'.msg.type = "execExit"
                 /\ last.msg = KeyMsg("enter"))]_vars

\* the session of the second instance ended with a failure
C16_Witness ==
  /\ last.msg = [type |-> "execExit", ok |-> FALSE]
  /\ Phase(m) = "Ready"
  /\ m.cursor = 1
  /\ Len(launched) = 1
  /\ launched[1].args[4] = m.vms[2].Name

\* C17: the phase changes only from Loading, to Ready when the fetch's
\* inventory is processed and to Failed when its error is; from Ready no
\* step changes the phase or the inventory, from Failed none changes the
\* phase or the error, and nothing leads back to Loading.
C17_PhaseChanges ==
  [][ /\ Phase(m') # Phase(m) =>
           /\ Phase(m) = "Loading"
           /\ fetch = "posted" /\ fetch' = "consumed"
           /\ last'.msg = fetchMsg
           /\ Phase(m') = (IF fetchMsg.type = "vmsMsg" THEN "Ready" ELSE "Failed")
      /\ Phase(m) = "Ready" => (Phase(m') = "Ready" /\ m'.vms = m.vms)
      /\ Phase(m) = "Failed" => (Phase(m') = "Failed" /\ m'.err = m.err)
      /\ Phase(m') = "Loading" => Phase(m) = "Loading" ]_vars

\* still Ready with the same three instances after a tick and an up key
C17_Witness ==
  /\ Pressed(UpKeys)
  /\ last.prev = "TickMsg"
  /\ Phase(last.m) = "Ready"
  /\ Phase(m) = "Ready"
  /\ Len(m.vms) = 3
  /\ m.vms = last.m.vms
  /\ last.m.cursor = 2

\* C18: with the fetch resolving and the loop serving its queue, a program
\* that is not quit leaves Loading: eventually the phase is Ready or Failed,
\* and once the completion message is posted the phase becomes Ready for an
\* inventory and Failed for an error.
C18_LeavesLoading ==
  /\ <>(Phase(m) # "Loading" \/ terminated)
  /\ (fetch = "posted" /\ fetchMsg.type = "vmsMsg")
       ~> (Phase(m) = "Ready" \/ terminated)
  /\ (fetch = "posted" /\ fetchMsg.type = "errMsg")
       ~> (Phase(m) = "Failed" \/ terminated)

\* the posted inventory was taken after ticks and keys, and the list is shown
C18_Witness ==
  /\ last.msg.type = "vmsMsg"
  /\ last.prev = "TickMsg"
  /\ fetch = "consumed"
  /\ Phase(m) = "Ready"
  /\ ~terminated
  /\ m.spinner = 2

\* phase, inventory, cursor and error of a Model
Selection(mm) == << Phase(mm), mm.vms, mm.cursor, mm.err >>

\* C19: phase, inventory, cursor and error change only in a step in which the
\* loop processes one fetch-succeeded, fetch-failed or key message; a spinner
\* tick leaves the four unchanged, launches nothing and only advances the
\* spinner.
C19_OnlyEventsChangeSelection ==
  /\ [](last.msg.type = "TickMsg" =>
          /\ Selection(m) = Selection(last.m)
          /\ m = [last.m EXCEPT !.spinner = m.spinner]
          /\ last.cmd = TickCmd
          /\ Len(launched) = last.n
          /\ exec = NoCmd)
  /\ [][Selection(m') # Selection(m) =>
          /\ last'.msg.type \in { "vmsMsg", "errMsg", "KeyMsg" }
          /\ last'.m = m
          /\ m' = Update(m, last'.msg).m]_vars

\* a tick was processed in Ready with the cursor on the second instance
C19_Witness ==
  /\ last.msg = TickMsg
  /\ Phase(m) = "Ready"
  /\ m.cursor = 1
  /\ last.m.spinner = 2
  /\ m.spinner = 3

\* the keys the switch of Update does not name
OtherKeys == Keys \ (UpKeys \cup DownKeys \cup { "enter" } \cup QuitKeys)

\* C20: in every phase a key that is not up, k, down, j, enter, q or ctrl+c
\* leaves the model unchanged, launches nothing and does not terminate the
\* program.
C20_OtherKeysIgnored ==
  Pressed(OtherKeys) =>
    /\ m = last.m
    /\ last.cmd = NoCmd
    /\ Len(launched) = last.n
    /\ exec = NoCmd
    /\ ~terminated

\* an unnamed key was pressed during Loading, after a down key
C20_Witness ==
  /\ Pressed(OtherKeys)
  /\ OtherKeys # { }
  /\ Phase(last.m) = "Loading"
  /\ navLoading
  /\ fetch = "posted"

\* C21: after the failure message for cause e is processed, errors.Is of the
\* stored error against e holds: the stored error identifies e itself as its
\* cause, not merely an error with the same text.
C21_StoredErrorIsCause ==
  last.msg.type = "errMsg" => ErrorsIs(m.err, last.msg.err)

\* what the code does give: the stored error is the errMsg around e, whose
\* text is the text of e, and errors.Is does not reach e through it
C21_StoredErrorHidesCause ==
  last.msg.type = "errMsg" =>
    /\ m.err = errMsg(last.msg.err)
    /\ Error(m.err) = Error(last.msg.err)
    /\ ~ErrorsIs(m.err, last.msg.err)

\* C22: in every reachable state the model is in exactly one of Loading
\* (loading set, no error), Failed (error set, loading clear) and Ready
\* (loading clear, no error); an error never comes with loading set; a
\* non-empty inventory occurs only in Ready, so never together with an
\* error; and the cursor is 0 whenever the inventory is empty.
C22_WellFormed ==
  /\ \/ (m.loading /\ m.err = NoError /\ Phase(m) = "Loading")
     \/ (~m.loading /\ m.err # NoError /\ Phase(m) = "Failed")
     \/ (~m.loading /\ m.err = NoError /\ Phase(m) = "Ready")
  /\ Len(m.vms) > 0 => (Phase(m) = "Ready" /\ m.err = NoError /\ ~m.loading)
  /\ Len(m.vms) = 0 => m.cursor = 0
  /\ m.cursor >= 0

\* Failed with the empty inventory, after a down key and a tick
C22_Witness ==
  /\ Phase(m) = "Failed"
  /\ ~m.loading
  /\ m.vms = << >>
  /\ m.cursor = 0
  /\ last.msg = TickMsg
  /\ last.prev = "KeyMsg"
  /\ navLoading
====
